---------------------------- MODULE Spec2Model ----------------------------
(***************************************************************************)
(* A model of the eye gaze tracker: the calibration sampler                *)
(* (src/src/calibration.py), the realtime estimator (src/src/inference.py),*)
(* the feature normalizer (src/src/feature_extraction.py), the EMA helper  *)
(* (src/src/utils.py), the trainer (src/src/train_model.py) and the control *)
(* panel that starts them on background threads (src/run_gui.py).          *)
(*                                                                         *)
(* Real numbers are exact rationals <<numerator, denominator>> in lowest   *)
(* terms; the inputs are chosen so that the source's float32/float64       *)
(* arithmetic would be exact on them too, apart from the decimal literals  *)
(* 0.15 and 1e-6, which are taken at their decimal value.                  *)
(***************************************************************************)
EXTENDS Integers, Sequences, FiniteSets, TLC

\* ------------------------------------------------------------ bounds
\* data rows of a dataset file train_model is given: 0..MaxRows
MaxRows == 3
\* ema calls in a series with one raw prediction
MaxUpdates == 9
\* changes (shifts, one scaling) made to one landmark set
MaxOps == 2
\* grid sizes tried: points_per_grid in 1..MaxGrid
MaxGrid == 2
\* dwell_frames in 0..MaxDwell
MaxDwell == 2
\* warmup_frames in 0..MaxWarmup
MaxWarmup == 1
\* the detector finds one of MaxFace different faces in a frame, or none
MaxFace == 2
\* cap.read() calls one run_calibration may make
MaxFrames == 4
\* cap.read() calls one run_realtime may make
MaxRtFrames == 4
\* background threads the control panel may start
MaxThreads == 2
\* cap.read() calls one background job of the control panel may make
MaxGuiFrames == 1

\* ------------------------------------------------------------ rationals
\* Python's None where a tuple of numbers is expected
None == <<>>

Abs(n) == IF n < 0 THEN -n ELSE n

RECURSIVE GCD(_, _)
GCD(a, b) == IF b = 0 THEN a ELSE GCD(b, a % b)

\* n/d in lowest terms with a positive denominator
Rat(n, d) ==
    LET g == GCD(Abs(n), Abs(d))
        s == IF d < 0 THEN -1 ELSE 1
    IN  <<(s * n) \div g, (s * d) \div g>>

RAdd(p, q) == Rat(p[1] * q[2] + q[1] * p[2], p[2] * q[2])
RSub(p, q) == Rat(p[1] * q[2] - q[1] * p[2], p[2] * q[2])
RMul(p, q) == Rat(p[1] * q[1], p[2] * q[2])
RDiv(p, q) == Rat(p[1] * q[2], p[2] * q[1])
RLe(p, q) == p[1] * q[2] <= q[1] * p[2]
RLt(p, q) == p[1] * q[2] < q[1] * p[2]
RInt(n) == <<n, 1>>
\* Python's int() of a real: truncation towards zero
RTrunc(p) == IF p[1] >= 0 THEN p[1] \div p[2] ELSE -((-p[1]) \div p[2])

\* ------------------------------------------------------------ program constants
ESC == 27
\* what cv2.waitKey(1) may return: -1 (no key within the delay), ESC, or
\* some other key (the space bar)
Keys == {-1, ESC, 32}

\* margin=0.15 of run_calibration's call of _grid_points
Margin == Rat(15, 100)
\* the additive epsilon 1e-6 of the inter-ocular distance
Epsilon == Rat(1, 1000000)
\* alpha=0.25 of run_realtime's call of ema
Alpha == Rat(25, 100)
Header == <<"f1", "f2", "f3", "f4", "tx", "ty">>

LEFT_EYE_IDX == <<33, 133, 159, 145>>
RIGHT_EYE_IDX == <<362, 263, 386, 374>>

\* ------------------------------------------------------------ _grid_points
\* np.linspace(start, stop, num): num evenly spaced values, the last one set
\* to stop itself
linspace(start, stop, num) ==
    IF num = 1 THEN <<start>>
    ELSE LET step == RDiv(RSub(stop, start), RInt(num - 1))
         IN  [k \in 1..num |->
                IF k = num THEN stop ELSE RAdd(start, RMul(RInt(k - 1), step))]

\* [(x, y) for x in xs] for one y
GridRow(xs, y) == [c \in 1..Len(xs) |-> <<xs[c], y>>]

RECURSIVE GridRows(_, _, _)
GridRows(xs, ys, r) ==
    IF r > Len(ys) THEN <<>> ELSE GridRow(xs, ys[r]) \o GridRows(xs, ys, r + 1)

\* the comprehension with its two loops swapped
GridColumn(x, ys) == [r \in 1..Len(ys) |-> <<x, ys[r]>>]

RECURSIVE GridColumns(_, _, _)
GridColumns(xs, ys, c) ==
    IF c > Len(xs) THEN <<>> ELSE GridColumn(xs[c], ys) \o GridColumns(xs, ys, c + 1)

_grid_points_column_major(cols, rows, margin) ==
    LET xs == linspace(margin, RSub(RInt(1), margin), cols)
        ys == linspace(margin, RSub(RInt(1), margin), rows)
    IN  GridColumns(xs, ys, 1)

_grid_points(cols, rows, margin) ==
    LET xs == linspace(margin, RSub(RInt(1), margin), cols)
        ys == linspace(margin, RSub(RInt(1), margin), rows)
    IN  GridRows(xs, ys, 1)

\* ------------------------------------------------------------ feature extraction
\* A frame is 0 (no face in it) or k in 1..MaxFace (face k in it).
Frames == 0..MaxFace

\* What the landmark detector reports for face k, scaled to pixels by
\* _landmarks_to_np: the four landmarks around each eye.  The eye centres are
\* (100, 100) and (100 + 4(m^2 - 1), 100 + 8m) with m = k + 1, so that their
\* distance is the integer 4(m^2 + 1).
FaceMesh(k) ==
    LET m  == k + 1
        lx == 100
        ly == 100
        rx == 100 + 4 * (m * m - 1)
        ry == 100 + 8 * m
    IN  [i \in {33, 133, 159, 145, 362, 263, 386, 374} |->
            CASE i = 33  -> <<lx - 2, ly>>
              [] i = 133 -> <<lx + 2, ly>>
              [] i = 159 -> <<lx, ly - 1>>
              [] i = 145 -> <<lx, ly + 1>>
              [] i = 362 -> <<rx - 2, ry>>
              [] i = 263 -> <<rx + 2, ry>>
              [] i = 386 -> <<rx, ry - 1>>
              [] i = 374 -> <<rx, ry + 1>>]

RECURSIVE SumAxis(_, _, _, _)
SumAxis(all_pts, idxs, axis, k) ==
    IF k > Len(idxs) THEN 0 ELSE all_pts[idxs[k]][axis] + SumAxis(all_pts, idxs, axis, k + 1)

\* sel.mean(axis=0)
_eye_center(all_pts, idxs) ==
    <<Rat(SumAxis(all_pts, idxs, 1, 1), Len(idxs)),
      Rat(SumAxis(all_pts, idxs, 2, 1), Len(idxs))>>

\* the integer square root
ISqrt(n) == CHOOSE k \in 0..n : k * k <= n /\ n < (k + 1) * (k + 1)

\* np.linalg.norm of a vector of two rationals with the same denominator
norm(v) ==
    LET d == v[1][2] * v[2][2]
        a == v[1][1] * v[2][2]
        b == v[2][1] * v[1][2]
    IN  Rat(ISqrt(a * a + b * b), d)

\* the eye centres taken from the frame's corner instead of their midpoint
features_from_corner(pts) ==
    LET lc  == _eye_center(pts, LEFT_EYE_IDX)
        rc  == _eye_center(pts, RIGHT_EYE_IDX)
        interocular == RAdd(norm(<<RSub(rc[1], lc[1]), RSub(rc[2], lc[2])>>), Epsilon)
    IN  <<RDiv(lc[1], interocular), RDiv(lc[2], interocular),
          RDiv(rc[1], interocular), RDiv(rc[2], interocular)>>

\* the offsets in pixels, not divided by the inter-ocular distance
features_in_pixels(pts) ==
    LET lc  == _eye_center(pts, LEFT_EYE_IDX)
        rc  == _eye_center(pts, RIGHT_EYE_IDX)
        mid == <<RDiv(RAdd(lc[1], rc[1]), RInt(2)), RDiv(RAdd(lc[2], rc[2]), RInt(2))>>
    IN  <<RSub(lc[1], mid[1]), RSub(lc[2], mid[2]),
          RSub(rc[1], mid[1]), RSub(rc[2], mid[2])>>

\* the offsets taken from the left eye's centre instead of the midpoint
features_from_left_eye(pts) ==
    LET lc  == _eye_center(pts, LEFT_EYE_IDX)
        rc  == _eye_center(pts, RIGHT_EYE_IDX)
        interocular == RAdd(norm(<<RSub(rc[1], lc[1]), RSub(rc[2], lc[2])>>), Epsilon)
    IN  <<RDiv(RSub(lc[1], lc[1]), interocular),
          RDiv(RSub(lc[2], lc[2]), interocular),
          RDiv(RSub(rc[1], lc[1]), interocular),
          RDiv(RSub(rc[2], lc[2]), interocular)>>

\* features_from_frame from the landmarks on: lc, rc, interocular, mid, feat
features_from_landmarks(pts) ==
    LET lc  == _eye_center(pts, LEFT_EYE_IDX)
        rc  == _eye_center(pts, RIGHT_EYE_IDX)
        interocular == RAdd(norm(<<RSub(rc[1], lc[1]), RSub(rc[2], lc[2])>>), Epsilon)
        mid == <<RDiv(RAdd(lc[1], rc[1]), RInt(2)), RDiv(RAdd(lc[2], rc[2]), RInt(2))>>
    IN  <<RDiv(RSub(lc[1], mid[1]), interocular),
          RDiv(RSub(lc[2], mid[2]), interocular),
          RDiv(RSub(rc[1], mid[1]), interocular),
          RDiv(RSub(rc[2], mid[2]), interocular)>>

\* features_from_frame's first result: None without a face, else the four
\* features (the second result, the debug record, is only drawn)
features_from_frame(frame) ==
    IF frame = 0 THEN None ELSE features_from_landmarks(FaceMesh(frame))

\* ------------------------------------------------------------ state
Tid == 1..MaxThreads

VARIABLES
    th,            \* th[t]: the local state of thread t (see Idle)
    file,          \* the file at out_csv: whether it exists, and its rows
    data_dir,      \* whether the directory "data" exists
    windows,       \* the names of the OpenCV windows on screen
    _rt_stop_flag, \* GazeApp._rt_stop_flag
    _threads,      \* GazeApp._threads: the threads started, in order
    model_file     \* the file at out_path and its directory

vars == <<th, file, data_dir, windows, _rt_stop_flag, _threads, model_file>>

\* A thread that runs nothing yet.  kind: what it runs; caller: the script
\* (__main__) or the control panel's job; pc: the statement it is at; exc: an
\* exception is propagating; budget/reads: the cap.read() calls it may make
\* and has made; logged: what the control panel's job logged when it ended;
\* ret: what run_realtime's last cap.read() returned first.
\* The remaining fields are the locals of run_calibration and run_realtime
\* under their source names (pos: the rows written through the open file; pt:
\* the pixel (px, py)), and records of what a loop did: dwell_reads and
\* dwell_fails (cap.read() calls of the current dwell phase and how many of
\* them gave no sample), file0 (the file at out_csv when run_calibration was
\* entered), esc (waitKey returned ESC at an abort check), polled
\* (the current loop iteration called waitKey at its abort check), hud (the
\* current frame got the overlay), valid (frames that gave a prediction),
\* stop_requested (Stop Realtime was clicked while the thread was inside
\* run_realtime's try).  For train_model: test_size, data (the array loadtxt
\* returned: its shape and rows), n_train (the rows of Xtr), r2 (r2x, r2y),
\* err (the class of the exception that left it), model_file0 (the file at
\* out_path when train_model was entered).  For a series of ema calls: s0
\* (the estimate before the first call).  For features computed on moved
\* landmarks: pts (the landmarks), feat0 (the features before the last
\* change), last (the last change), ops (the changes made), k (the factor
\* the landmarks were scaled by).  flash_esc: a waitKey of _flash_ack
\* returned ESC.
NoFile == [exists |-> FALSE, rows |-> <<>>]
\* no file at out_path, nor its directory; pack: the keys of the dumped dict
\* and the number of rows its models were fitted on
NoModel == [dir |-> FALSE, exists |-> FALSE, pack |-> [keys |-> {}, n_train |-> 0]]

Idle ==
    [kind |-> "none", caller |-> "none", pc |-> "idle", exc |-> FALSE,
     budget |-> 0, reads |-> 0,
     fe |-> "none", cap |-> "none", ret |-> FALSE, frame |-> 0,
     points_per_grid |-> 0, dwell_frames |-> 0, warmup_frames |-> 0,
     points |-> <<>>, i |-> 0, f |-> 0, collected |-> 0, samples |-> <<>>,
     pos |-> 0, file0 |-> [exists |-> FALSE, rows |-> <<>>],
     dwell_reads |-> 0, dwell_fails |-> 0, esc |-> FALSE, polled |-> FALSE,
     feat |-> None, pred |-> None, pred_smooth |-> None, pt |-> None,
     hud |-> FALSE, valid |-> 0, stop_requested |-> FALSE, logged |-> "none",
     test_size |-> <<>>, data |-> [shape |-> <<>>, rows |-> <<>>], n_train |-> 0,
     r2 |-> <<>>, err |-> "none", model_file0 |-> NoModel, s0 |-> <<>>,
     pts |-> <<>>, feat0 |-> <<>>, last |-> "none", ops |-> 0, k |-> 1,
     flash_esc |-> FALSE]


\* a file an earlier run left behind
OldFile == [exists |-> TRUE, rows |-> <<Header, <<"old">>, <<"old">>, <<"old">>>>]

\* the file after open(out_csv, "w"): created or truncated
Truncated == [exists |-> TRUE, rows |-> <<>>]

\* the file after a writerow through a handle that has written pos rows
\* (rows a second writer truncated away read back as empty)
WriteAt(fl, pos, r) ==
    [exists |-> TRUE,
     rows |-> IF pos < Len(fl.rows) THEN [fl.rows EXCEPT ![pos + 1] = r]
              ELSE fl.rows \o [k \in 1..(pos - Len(fl.rows)) |-> <<>>] \o <<r>>]

\* s["feat"] + s["xy"]
RowOf(s) == s.feat \o s.xy

\* the statements of run_calibration from the try on
CalTryPcs ==
    {"c_target", "c_warm", "c_warm_show", "c_warm_key", "c_dwell", "c_dwell_feat",
     "c_dwell_show", "c_dwell_key", "c_flash", "c_flash_show", "c_open",
     "c_header", "c_rows", "c_print"}

\* _cleanup(cap, fe) up to destroyAllWindows: release and close are each
\* called inside a bare try/except
_cleanup(l) == [l EXCEPT !.cap = "released", !.fe = "closed"]

\* ------------------------------------------------------------ run_calibration
\* w, h = window_size; ensure_dir("data"); points = _grid_points(...)
CalEntry(t) ==
    /\ th[t].kind = "calibration" /\ th[t].pc = "c_entry"
    /\ data_dir' = TRUE
    /\ th' = [th EXCEPT ![t].points =
                           _grid_points(th[t].points_per_grid, th[t].points_per_grid, Margin),
                        ![t].file0 = file, ![t].pc = "c_fe"]
    /\ UNCHANGED <<file, windows, _rt_stop_flag, _threads, model_file>>

\* fe = FeatureExtractor()
CalFe(t) ==
    /\ th[t].kind = "calibration" /\ th[t].pc = "c_fe"
    /\ th' = [th EXCEPT ![t].fe = "open", ![t].pc = "c_cap"]
    /\ UNCHANGED <<file, data_dir, windows, _rt_stop_flag, _threads, model_file>>

\* cap = cv2.VideoCapture(0, cv2.CAP_DSHOW)
CalCap(t) ==
    /\ th[t].kind = "calibration" /\ th[t].pc = "c_cap"
    /\ th' = [th EXCEPT ![t].cap = "open", ![t].pc = "c_set"]
    /\ UNCHANGED <<file, data_dir, windows, _rt_stop_flag, _threads, model_file>>

\* cap.set(...) twice; samples = []; the try is entered
CalSet(t) ==
    /\ th[t].kind = "calibration" /\ th[t].pc = "c_set"
    /\ th' = [th EXCEPT ![t].samples = <<>>, ![t].pc = "c_target"]
    /\ UNCHANGED <<file, data_dir, windows, _rt_stop_flag, _threads, model_file>>

\* for i, (nx, ny) in enumerate(points, start=1): the next target, or the
\* end of the loop
CalTarget(t) ==
    /\ th[t].kind = "calibration" /\ th[t].pc = "c_target"
    /\ th' = IF th[t].i < Len(th[t].points)
             THEN [th EXCEPT ![t].i = @ + 1, ![t].f = 0, ![t].pc = "c_warm"]
             ELSE [th EXCEPT ![t].pc = "c_open"]
    /\ UNCHANGED <<file, data_dir, windows, _rt_stop_flag, _threads, model_file>>

\* the warmup loop's head, after warmup_frames iterations: collected = 0 and
\* the dwell loop starts
CalWarmupEnd(t) ==
    /\ th[t].kind = "calibration" /\ th[t].pc = "c_warm"
    /\ th[t].f >= th[t].warmup_frames
    /\ th' = [th EXCEPT ![t].collected = 0, ![t].dwell_reads = 0, ![t].dwell_fails = 0,
                        ![t].pc = "c_dwell"]
    /\ UNCHANGED <<file, data_dir, windows, _rt_stop_flag, _threads, model_file>>

\* one warmup iteration's ret, frame = cap.read(); if not ret: continue
CalWarmupRead(t) ==
    /\ th[t].kind = "calibration" /\ th[t].pc = "c_warm"
    /\ th[t].f < th[t].warmup_frames
    /\ th[t].reads < th[t].budget
    /\ \E ret \in BOOLEAN, frame \in Frames :
          th' = IF ret
                THEN [th EXCEPT ![t].reads = @ + 1, ![t].f = @ + 1, ![t].frame = frame,
                                ![t].polled = FALSE, ![t].pc = "c_warm_show"]
                ELSE [th EXCEPT ![t].reads = @ + 1, ![t].f = @ + 1, ![t].polled = FALSE]
    /\ UNCHANGED <<file, data_dir, windows, _rt_stop_flag, _threads, model_file>>

\* _draw_target(...); cv2.imshow("Calibration", frame)
CalWarmupShow(t) ==
    /\ th[t].kind = "calibration" /\ th[t].pc = "c_warm_show"
    /\ windows' = windows \cup {"Calibration"}
    /\ th' = [th EXCEPT ![t].pc = "c_warm_key"]
    /\ UNCHANGED <<file, data_dir, _rt_stop_flag, _threads, model_file>>

\* an abort check that leaves the loops and goes on to save what there is
abort_check_save(l, key, next) ==
    IF key = ESC
    THEN [l EXCEPT !.polled = TRUE, !.esc = TRUE, !.pc = "c_open"]
    ELSE [l EXCEPT !.polled = TRUE, !.pc = next]

\* what an abort check does with the key waitKey returned
abort_check(l, key, next) ==
    IF key = ESC
    THEN [l EXCEPT !.polled = TRUE, !.esc = TRUE, !.pc = "c_abort"]
    ELSE [l EXCEPT !.polled = TRUE, !.pc = next]

\* if cv2.waitKey(1) == 27: _cleanup(cap, fe); return
CalWarmupKey(t) ==
    /\ th[t].kind = "calibration" /\ th[t].pc = "c_warm_key"
    /\ \E key \in Keys : th' = [th EXCEPT ![t] = abort_check(@, key, "c_warm")]
    /\ UNCHANGED <<file, data_dir, windows, _rt_stop_flag, _threads, model_file>>

\* a dwell loop that gives up after two reads
dwell_continues_capped(l) == l.collected < l.dwell_frames /\ l.dwell_reads < 2

\* while collected < dwell_frames
dwell_continues(l) == l.collected < l.dwell_frames

\* the dwell loop's head once collected has reached dwell_frames; _flash_ack
\* is entered
CalDwellEnd(t) ==
    /\ th[t].kind = "calibration" /\ th[t].pc = "c_dwell"
    /\ ~dwell_continues(th[t])
    /\ th' = [th EXCEPT ![t].pc = "c_flash"]
    /\ UNCHANGED <<file, data_dir, windows, _rt_stop_flag, _threads, model_file>>

\* one dwell iteration's ret, frame = cap.read(); if not ret: continue
CalDwellRead(t) ==
    /\ th[t].kind = "calibration" /\ th[t].pc = "c_dwell"
    /\ dwell_continues(th[t])
    /\ th[t].reads < th[t].budget
    /\ \E ret \in BOOLEAN, frame \in Frames :
          th' = IF ret
                THEN [th EXCEPT ![t].reads = @ + 1, ![t].dwell_reads = @ + 1,
                                ![t].frame = frame, ![t].polled = FALSE,
                                ![t].pc = "c_dwell_feat"]
                ELSE [th EXCEPT ![t].reads = @ + 1, ![t].dwell_reads = @ + 1,
                                ![t].dwell_fails = @ + 1, ![t].polled = FALSE]
    /\ UNCHANGED <<file, data_dir, windows, _rt_stop_flag, _threads, model_file>>

\* the same with a frame without a feature counted as collected
dwell_collect_any(l, feat) ==
    IF feat # None
    THEN [l EXCEPT !.samples = Append(@, [feat |-> feat, xy |-> l.points[l.i]]),
                   !.collected = @ + 1, !.pc = "c_dwell_show"]
    ELSE [l EXCEPT !.dwell_fails = @ + 1, !.collected = @ + 1, !.pc = "c_dwell_show"]

\* the same with every sample labelled with the first target
dwell_collect_first(l, feat) ==
    IF feat # None
    THEN [l EXCEPT !.samples = Append(@, [feat |-> feat, xy |-> l.points[1]]),
                   !.collected = @ + 1, !.pc = "c_dwell_show"]
    ELSE [l EXCEPT !.dwell_fails = @ + 1, !.pc = "c_dwell_show"]

\* if feat is not None: samples.append({"feat": ..., "xy": [nx, ny]});
\* collected += 1
dwell_collect(l, feat) ==
    IF feat # None
    THEN [l EXCEPT !.samples = Append(@, [feat |-> feat, xy |-> l.points[l.i]]),
                   !.collected = @ + 1, !.pc = "c_dwell_show"]
    ELSE [l EXCEPT !.dwell_fails = @ + 1, !.pc = "c_dwell_show"]

\* feat, dbg = fe.features_from_frame(frame); _draw_target(...); the append
CalDwellFeat(t) ==
    /\ th[t].kind = "calibration" /\ th[t].pc = "c_dwell_feat"
    /\ th' = [th EXCEPT ![t] = dwell_collect(@, features_from_frame(@.frame))]
    /\ UNCHANGED <<file, data_dir, windows, _rt_stop_flag, _threads, model_file>>

\* cv2.imshow("Calibration", frame)
CalDwellShow(t) ==
    /\ th[t].kind = "calibration" /\ th[t].pc = "c_dwell_show"
    /\ windows' = windows \cup {"Calibration"}
    /\ th' = [th EXCEPT ![t].pc = "c_dwell_key"]
    /\ UNCHANGED <<file, data_dir, _rt_stop_flag, _threads, model_file>>

\* if cv2.waitKey(1) == 27: _cleanup(cap, fe); return
CalDwellKey(t) ==
    /\ th[t].kind = "calibration" /\ th[t].pc = "c_dwell_key"
    /\ \E key \in Keys : th' = [th EXCEPT ![t] = abort_check(@, key, "c_dwell")]
    /\ UNCHANGED <<file, data_dir, windows, _rt_stop_flag, _threads, model_file>>

\* _flash_ack's loop head once ms milliseconds have passed
CalFlashEnd(t) ==
    /\ th[t].kind = "calibration" /\ th[t].pc = "c_flash"
    /\ th' = [th EXCEPT ![t].pc = "c_target"]
    /\ UNCHANGED <<file, data_dir, windows, _rt_stop_flag, _threads, model_file>>

\* a flash that samples the frames it reads
flash_frame_sampled(l, frame) ==
    [l EXCEPT !.reads = @ + 1, !.frame = frame, !.pc = "c_flash_show",
              !.samples = IF features_from_frame(frame) = None THEN @
                          ELSE Append(@, [feat |-> features_from_frame(frame),
                                          xy |-> l.points[l.i]])]

\* a frame read by _flash_ack: it is only drawn on
flash_frame(l, frame) ==
    [l EXCEPT !.reads = @ + 1, !.frame = frame, !.pc = "c_flash_show"]

\* _flash_ack's loop head before that: ret, frame = cap.read(); if not ret:
\* continue
CalFlashRead(t) ==
    /\ th[t].kind = "calibration" /\ th[t].pc = "c_flash"
    /\ th[t].reads < th[t].budget
    /\ \E ret \in BOOLEAN, frame \in Frames :
          th' = IF ret
                THEN [th EXCEPT ![t] = flash_frame(@, frame)]
                ELSE [th EXCEPT ![t].reads = @ + 1]
    /\ UNCHANGED <<file, data_dir, windows, _rt_stop_flag, _threads, model_file>>

\* a flash that takes ESC as an abort
flash_key_abort(l, key) ==
    IF key = ESC
    THEN [l EXCEPT !.flash_esc = TRUE, !.esc = TRUE, !.pc = "c_abort"]
    ELSE [l EXCEPT !.pc = "c_flash"]

\* cv2.waitKey(1) in _flash_ack: the key is not looked at
flash_key(l, key) == [l EXCEPT !.flash_esc = @ \/ key = ESC, !.pc = "c_flash"]

\* cv2.circle(...); cv2.imshow("Calibration", frame); cv2.waitKey(1), whose
\* result is dropped
CalFlashShow(t) ==
    /\ th[t].kind = "calibration" /\ th[t].pc = "c_flash_show"
    /\ windows' = windows \cup {"Calibration"}
    /\ \E key \in Keys : th' = [th EXCEPT ![t] = flash_key(@, key)]
    /\ UNCHANGED <<file, data_dir, _rt_stop_flag, _threads, model_file>>

\* a mode that keeps the rows already in the file
open_keep(fl) == [exists |-> TRUE, rows |-> fl.rows]

\* open(out_csv, "w", newline="")
open_w(fl) == Truncated

\* with open(out_csv, "w", newline="") as f: wr = csv.writer(f)
CalOpen(t) ==
    /\ th[t].kind = "calibration" /\ th[t].pc = "c_open"
    /\ file' = open_w(file)
    /\ th' = [th EXCEPT ![t].pos = 0, ![t].pc = "c_header"]
    /\ UNCHANGED <<data_dir, windows, _rt_stop_flag, _threads, model_file>>

\* wr.writerow(["f1","f2","f3","f4","tx","ty"])
CalHeader(t) ==
    /\ th[t].kind = "calibration" /\ th[t].pc = "c_header"
    /\ file' = WriteAt(file, th[t].pos, Header)
    /\ th' = [th EXCEPT ![t].pos = @ + 1, ![t].pc = "c_rows"]
    /\ UNCHANGED <<data_dir, windows, _rt_stop_flag, _threads, model_file>>

\* for s in samples: wr.writerow(s["feat"] + s["xy"])
CalRow(t) ==
    /\ th[t].kind = "calibration" /\ th[t].pc = "c_rows"
    /\ th[t].pos <= Len(th[t].samples)
    /\ file' = WriteAt(file, th[t].pos, RowOf(th[t].samples[th[t].pos]))
    /\ th' = [th EXCEPT ![t].pos = @ + 1]
    /\ UNCHANGED <<data_dir, windows, _rt_stop_flag, _threads, model_file>>

\* the end of that loop and of the with block; print(...)
CalRowsEnd(t) ==
    /\ th[t].kind = "calibration" /\ th[t].pc = "c_rows"
    /\ th[t].pos > Len(th[t].samples)
    /\ th' = [th EXCEPT ![t].pc = "c_print"]
    /\ UNCHANGED <<file, data_dir, windows, _rt_stop_flag, _threads, model_file>>

CalPrint(t) ==
    /\ th[t].kind = "calibration" /\ th[t].pc = "c_print"
    /\ th' = [th EXCEPT ![t].pc = "c_finally"]
    /\ UNCHANGED <<file, data_dir, windows, _rt_stop_flag, _threads, model_file>>

\* the abort branch: _cleanup(cap, fe), then return, which runs the finally
CalAbort(t) ==
    /\ th[t].kind = "calibration" /\ th[t].pc = "c_abort"
    /\ windows' = {}
    /\ th' = [th EXCEPT ![t] = [_cleanup(@) EXCEPT !.pc = "c_finally"]]
    /\ UNCHANGED <<file, data_dir, _rt_stop_flag, _threads, model_file>>

\* the abort branch when cv2.destroyAllWindows() raises
CalAbortRaise(t) ==
    /\ th[t].kind = "calibration" /\ th[t].pc = "c_abort"
    /\ th' = [th EXCEPT ![t] = [_cleanup(@) EXCEPT !.exc = TRUE, !.pc = "c_finally"]]
    /\ UNCHANGED <<file, data_dir, windows, _rt_stop_flag, _threads, model_file>>

\* finally: _cleanup(cap, fe); then the return or the exception goes on
CalFinally(t) ==
    /\ th[t].kind = "calibration" /\ th[t].pc = "c_finally"
    /\ windows' = {}
    /\ th' = [th EXCEPT ![t] = [_cleanup(@) EXCEPT
                                   !.pc = IF th[t].exc THEN "raised" ELSE "returned"]]
    /\ UNCHANGED <<file, data_dir, _rt_stop_flag, _threads, model_file>>

\* the finally when cv2.destroyAllWindows() raises
CalFinallyRaise(t) ==
    /\ th[t].kind = "calibration" /\ th[t].pc = "c_finally"
    /\ th' = [th EXCEPT ![t] = [_cleanup(@) EXCEPT !.exc = TRUE, !.pc = "raised"]]
    /\ UNCHANGED <<file, data_dir, windows, _rt_stop_flag, _threads, model_file>>

\* a statement inside the try raises: control goes to the finally
CalRaise(t) ==
    /\ th[t].kind = "calibration" /\ th[t].pc \in CalTryPcs
    /\ th' = [th EXCEPT ![t].exc = TRUE, ![t].pc = "c_finally"]
    /\ UNCHANGED <<file, data_dir, windows, _rt_stop_flag, _threads, model_file>>

\* a statement before the try raises: control leaves run_calibration
CalRaiseEarly(t) ==
    /\ th[t].kind = "calibration" /\ th[t].pc \in {"c_entry", "c_fe", "c_cap", "c_set"}
    /\ th' = [th EXCEPT ![t].exc = TRUE, ![t].pc = "raised"]
    /\ UNCHANGED <<file, data_dir, windows, _rt_stop_flag, _threads, model_file>>

CalStep(t) ==
    \/ CalEntry(t) \/ CalFe(t) \/ CalCap(t) \/ CalSet(t) \/ CalTarget(t)
    \/ CalWarmupEnd(t) \/ CalWarmupRead(t) \/ CalWarmupShow(t) \/ CalWarmupKey(t)
    \/ CalDwellEnd(t) \/ CalDwellRead(t) \/ CalDwellFeat(t) \/ CalDwellShow(t)
    \/ CalDwellKey(t)
    \/ CalFlashEnd(t) \/ CalFlashRead(t) \/ CalFlashShow(t)
    \/ CalOpen(t) \/ CalHeader(t) \/ CalRow(t) \/ CalRowsEnd(t) \/ CalPrint(t)
    \/ CalAbort(t) \/ CalAbortRaise(t) \/ CalFinally(t) \/ CalFinallyRaise(t)
    \/ CalRaise(t) \/ CalRaiseEarly(t)

\* run_calibration.py: the script calls run_calibration on the main thread
\* (thread 1 of the model)
Main == 1

CalibrationArgs ==
    [points_per_grid : 1..MaxGrid, dwell_frames : 0..MaxDwell,
     warmup_frames : 0..MaxWarmup]

start_calibration(a, caller, budget) ==
    [Idle EXCEPT !.kind = "calibration", !.caller = caller, !.pc = "c_entry",
                 !.budget = budget, !.points_per_grid = a.points_per_grid,
                 !.dwell_frames = a.dwell_frames, !.warmup_frames = a.warmup_frames]

InitCalibration ==
    /\ \E a \in CalibrationArgs :
          th = [t \in Tid |-> IF t = Main THEN start_calibration(a, "cli", MaxFrames)
                              ELSE Idle]
    /\ file \in {NoFile, OldFile}
    /\ data_dir = FALSE
    /\ windows = {}
    /\ _rt_stop_flag = FALSE
    /\ _threads = <<>>
    /\ model_file = NoModel

NextCalibration == \E t \in Tid : CalStep(t)

SpecCalibration == InitCalibration /\ [][NextCalibration]_vars

\* ------------------------------------------------------------ ema
\* the weights the wrong way round
ema_swapped(prev, new, alpha) ==
    IF prev = None THEN new
    ELSE [k \in 1..Len(new) |->
            RAdd(RMul(alpha, prev[k]), RMul(RSub(RInt(1), alpha), new[k]))]

\* the mean of the two, whatever alpha
ema_half(prev, new, alpha) ==
    IF prev = None THEN new
    ELSE [k \in 1..Len(new) |-> RDiv(RAdd(prev[k], new[k]), RInt(2))]

\* utils.ema on arrays: new when prev is None, else (1 - alpha) * prev +
\* alpha * new, element by element
ema(prev, new, alpha) ==
    IF prev = None THEN new
    ELSE [k \in 1..Len(new) |->
            RAdd(RMul(RSub(RInt(1), alpha), prev[k]), RMul(alpha, new[k]))]

\* utils.denormalize_coords
denormalize_coords(nx, ny, w, h) == <<RTrunc(RMul(nx, RInt(w))), RTrunc(RMul(ny, RInt(h)))>>

\* ------------------------------------------------------------ run_realtime
\* window_size=(1280, 720)
WindowW == 1280
WindowH == 720

\* what model_x and model_y may predict for a feature: (nx, ny)
RawPreds == {<<Rat(0, 1), Rat(1, 1)>>, <<Rat(1, 2), Rat(1, 4)>>}

\* the statements of run_realtime from the try on
RtTryPcs ==
    {"r_loop", "r_feat", "r_if", "r_ema", "r_hud", "r_show", "r_key", "r_pace"}

\* pack = load(model_path); mx, my = pack["model_x"], pack["model_y"]
RtLoad(t) ==
    /\ th[t].kind = "realtime" /\ th[t].pc = "r_load"
    /\ th' = [th EXCEPT ![t].pc = "r_fe"]
    /\ UNCHANGED <<file, data_dir, windows, _rt_stop_flag, _threads, model_file>>

\* fe = FeatureExtractor()
RtFe(t) ==
    /\ th[t].kind = "realtime" /\ th[t].pc = "r_fe"
    /\ th' = [th EXCEPT ![t].fe = "open", ![t].pc = "r_cap"]
    /\ UNCHANGED <<file, data_dir, windows, _rt_stop_flag, _threads, model_file>>

\* cap = cv2.VideoCapture(0, cv2.CAP_DSHOW)
RtCap(t) ==
    /\ th[t].kind = "realtime" /\ th[t].pc = "r_cap"
    /\ th' = [th EXCEPT ![t].cap = "open", ![t].pc = "r_set"]
    /\ UNCHANGED <<file, data_dir, windows, _rt_stop_flag, _threads, model_file>>

\* cap.set(...) twice; pred_smooth = None; the try is entered
RtSet(t) ==
    /\ th[t].kind = "realtime" /\ th[t].pc = "r_set"
    /\ th' = [th EXCEPT ![t].pred_smooth = None, ![t].pc = "r_loop"]
    /\ UNCHANGED <<file, data_dir, windows, _rt_stop_flag, _threads, model_file>>

\* a capture miss that still takes its time slot
capture_miss_paced(l) ==
    [l EXCEPT !.reads = @ + 1, !.ret = FALSE, !.polled = FALSE, !.hud = FALSE,
              !.pc = "r_pace"]

\* if not ret: continue
capture_miss(l) ==
    [l EXCEPT !.reads = @ + 1, !.ret = FALSE, !.polled = FALSE, !.hud = FALSE]

\* while True: t0 = time.time(); ret, frame = cap.read(); if not ret: continue
RtRead(t) ==
    /\ th[t].kind = "realtime" /\ th[t].pc = "r_loop"
    /\ th[t].reads < th[t].budget
    /\ \E ret \in BOOLEAN, frame \in Frames :
          th' = IF ret
                THEN [th EXCEPT ![t].reads = @ + 1, ![t].ret = TRUE, ![t].frame = frame,
                                ![t].polled = FALSE, ![t].hud = FALSE,
                                ![t].pc = "r_feat"]
                ELSE [th EXCEPT ![t] = capture_miss(@)]
    /\ UNCHANGED <<file, data_dir, windows, _rt_stop_flag, _threads, model_file>>

\* feat, dbg = fe.features_from_frame(frame)
RtFeat(t) ==
    /\ th[t].kind = "realtime" /\ th[t].pc = "r_feat"
    /\ th' = [th EXCEPT ![t].feat = features_from_frame(th[t].frame), ![t].pc = "r_if"]
    /\ UNCHANGED <<file, data_dir, windows, _rt_stop_flag, _threads, model_file>>

\* if feat is not None: nx = ...; ny = ...; pred = np.array([nx, ny])
RtPredict(t) ==
    /\ th[t].kind = "realtime" /\ th[t].pc = "r_if"
    /\ th[t].feat # None
    /\ \E raw \in RawPreds : th' = [th EXCEPT ![t].pred = raw, ![t].pc = "r_ema"]
    /\ UNCHANGED <<file, data_dir, windows, _rt_stop_flag, _threads, model_file>>

\* a no-face frame that forgets the estimate
no_face_reset(l) == [l EXCEPT !.pred_smooth = None, !.pc = "r_show"]

\* feat is None: the if's body is skipped
no_face(l) == [l EXCEPT !.pc = "r_show"]

RtNoFace(t) ==
    /\ th[t].kind = "realtime" /\ th[t].pc = "r_if"
    /\ th[t].feat = None
    /\ th' = [th EXCEPT ![t] = no_face(@)]
    /\ UNCHANGED <<file, data_dir, windows, _rt_stop_flag, _threads, model_file>>

\* pred_smooth = ema(pred_smooth, pred, alpha=0.25)
RtEma(t) ==
    /\ th[t].kind = "realtime" /\ th[t].pc = "r_ema"
    /\ th' = [th EXCEPT ![t].pred_smooth = ema(th[t].pred_smooth, th[t].pred, Alpha),
                        ![t].valid = @ + 1, ![t].pc = "r_hud"]
    /\ UNCHANGED <<file, data_dir, windows, _rt_stop_flag, _threads, model_file>>

\* px, py = denormalize_coords(pred_smooth[0], pred_smooth[1], w, h);
\* _draw_hud(frame, (px, py), dbg)
RtHud(t) ==
    /\ th[t].kind = "realtime" /\ th[t].pc = "r_hud"
    /\ th' = [th EXCEPT ![t].pt = denormalize_coords(th[t].pred_smooth[1],
                                                     th[t].pred_smooth[2], WindowW, WindowH),
                        ![t].hud = TRUE, ![t].pc = "r_show"]
    /\ UNCHANGED <<file, data_dir, windows, _rt_stop_flag, _threads, model_file>>

\* cv2.imshow("Realtime Gaze", frame)
RtShow(t) ==
    /\ th[t].kind = "realtime" /\ th[t].pc = "r_show"
    /\ windows' = windows \cup {"Realtime Gaze"}
    /\ th' = [th EXCEPT ![t].pc = "r_key"]
    /\ UNCHANGED <<file, data_dir, _rt_stop_flag, _threads, model_file>>

\* if cv2.waitKey(1) == 27: break
RtKey(t) ==
    /\ th[t].kind = "realtime" /\ th[t].pc = "r_key"
    /\ \E key \in Keys :
          th' = IF key = ESC
                THEN [th EXCEPT ![t].polled = TRUE, ![t].esc = TRUE, ![t].pc = "r_finally"]
                ELSE [th EXCEPT ![t].polled = TRUE, ![t].pc = "r_pace"]
    /\ UNCHANGED <<file, data_dir, windows, _rt_stop_flag, _threads, model_file>>

\* dt = time.time() - t0; wait = max(0, 1/fps_target - dt); sleep if wait > 0
RtPace(t) ==
    /\ th[t].kind = "realtime" /\ th[t].pc = "r_pace"
    /\ th' = [th EXCEPT ![t].pc = "r_loop"]
    /\ UNCHANGED <<file, data_dir, windows, _rt_stop_flag, _threads, model_file>>

\* finally: cap.release(); fe.close(); cv2.destroyAllWindows()
RtFinally(t) ==
    /\ th[t].kind = "realtime" /\ th[t].pc = "r_finally"
    /\ windows' = {}
    /\ th' = [th EXCEPT ![t] = [_cleanup(@) EXCEPT
                                   !.pc = IF th[t].exc THEN "raised" ELSE "returned"]]
    /\ UNCHANGED <<file, data_dir, _rt_stop_flag, _threads, model_file>>

\* the finally when cv2.destroyAllWindows() raises
RtFinallyRaise(t) ==
    /\ th[t].kind = "realtime" /\ th[t].pc = "r_finally"
    /\ th' = [th EXCEPT ![t] = [_cleanup(@) EXCEPT !.exc = TRUE, !.pc = "raised"]]
    /\ UNCHANGED <<file, data_dir, windows, _rt_stop_flag, _threads, model_file>>

\* a statement inside the try raises: control goes to the finally
RtRaise(t) ==
    /\ th[t].kind = "realtime" /\ th[t].pc \in RtTryPcs
    /\ th' = [th EXCEPT ![t].exc = TRUE, ![t].pc = "r_finally"]
    /\ UNCHANGED <<file, data_dir, windows, _rt_stop_flag, _threads, model_file>>

\* a statement before the try raises: control leaves run_realtime
RtRaiseEarly(t) ==
    /\ th[t].kind = "realtime" /\ th[t].pc \in {"r_load", "r_fe", "r_cap", "r_set"}
    /\ th' = [th EXCEPT ![t].exc = TRUE, ![t].pc = "raised"]
    /\ UNCHANGED <<file, data_dir, windows, _rt_stop_flag, _threads, model_file>>

RtStep(t) ==
    \/ RtLoad(t) \/ RtFe(t) \/ RtCap(t) \/ RtSet(t) \/ RtRead(t) \/ RtFeat(t)
    \/ RtPredict(t) \/ RtNoFace(t) \/ RtEma(t) \/ RtHud(t) \/ RtShow(t) \/ RtKey(t)
    \/ RtPace(t) \/ RtFinally(t) \/ RtFinallyRaise(t) \/ RtRaise(t) \/ RtRaiseEarly(t)

start_realtime(caller, budget) ==
    [Idle EXCEPT !.kind = "realtime", !.caller = caller, !.pc = "r_load",
                 !.budget = budget]

\* run_realtime.py: the script calls run_realtime on the main thread
InitRealtime ==
    /\ th = [t \in Tid |-> IF t = Main THEN start_realtime("cli", MaxRtFrames) ELSE Idle]
    /\ file \in {NoFile, OldFile}
    /\ data_dir \in BOOLEAN
    /\ windows = {}
    /\ _rt_stop_flag = FALSE
    /\ _threads = <<>>
    /\ model_file = NoModel

NextRealtime == \E t \in Tid : RtStep(t)

SpecRealtime == InitRealtime /\ [][NextRealtime]_vars

\* ------------------------------------------------------------ GazeApp
\* What the panel's calibration fields may hold when Start Calibration is
\* clicked: the smallest grid, and warmup and dwell counts that the job's
\* frames can complete, so that the interleavings of two jobs stay
\* explorable.
GuiArgs ==
    {a \in CalibrationArgs :
        a.points_per_grid = 1 /\ a.dwell_frames + a.warmup_frames <= MaxGuiFrames}

\* _run_bg(fn): the thread is started and appended to self._threads
_run_bg(l) ==
    /\ Len(_threads) < MaxThreads
    /\ th' = [th EXCEPT ![Len(_threads) + 1] = l]
    /\ _threads' = Append(_threads, Len(_threads) + 1)

\* GazeApp._start_calibration: the fields are read and the job is started
StartCalibration ==
    /\ \E a \in GuiArgs : _run_bg(start_calibration(a, "gui", MaxGuiFrames))
    /\ UNCHANGED <<file, data_dir, windows, _rt_stop_flag, model_file>>

\* GazeApp._start_realtime: the stop flag is cleared and the job is started
StartRealtime ==
    /\ _rt_stop_flag' = FALSE
    /\ _run_bg(start_realtime("gui", MaxGuiFrames))
    /\ UNCHANGED <<file, data_dir, windows, model_file>>

\* GazeApp._stop_realtime
StopRealtime ==
    /\ _rt_stop_flag' = TRUE
    /\ th' = [t \in Tid |->
                IF th[t].kind = "realtime" /\ th[t].pc \in RtTryPcs
                THEN [th[t] EXCEPT !.stop_requested = TRUE] ELSE th[t]]
    /\ UNCHANGED <<file, data_dir, windows, _threads, model_file>>

\* a job's end: the thread's locals are gone; what it logged and what it
\* left open stay
job_done(l, msg) ==
    [Idle EXCEPT !.kind = l.kind, !.caller = l.caller, !.pc = "job_done",
                 !.fe = l.fe, !.cap = l.cap, !.logged = msg]

\* the calibration job once _run_calibration is back: "Calibration
\* finished." is logged, or the error
CalibrationJobEnd(t) ==
    /\ th[t].kind = "calibration" /\ th[t].caller = "gui"
    /\ th[t].pc \in {"returned", "raised"}
    /\ th' = [th EXCEPT ![t] = job_done(@, IF @.pc = "raised" THEN "error" ELSE "finished")]
    /\ UNCHANGED <<file, data_dir, windows, _rt_stop_flag, _threads, model_file>>

\* the realtime job once _run_realtime is back: _run_realtime_yield yields
\* once, the stop flag is looked at ("Realtime stop requested."), and
\* "Realtime finished." is logged, or the error
RealtimeJobEnd(t) ==
    /\ th[t].kind = "realtime" /\ th[t].caller = "gui"
    /\ th[t].pc \in {"returned", "raised"}
    /\ th' = [th EXCEPT ![t] = job_done(@, IF @.pc = "raised" THEN "error"
                                            ELSE IF _rt_stop_flag THEN "stop requested"
                                            ELSE "finished")]
    /\ UNCHANGED <<file, data_dir, windows, _rt_stop_flag, _threads, model_file>>

\* GazeApp.__init__: no thread yet, the stop flag clear
InitGui ==
    /\ th = [t \in Tid |-> Idle]
    /\ file = NoFile
    /\ data_dir = FALSE
    /\ windows = {}
    /\ _rt_stop_flag = FALSE
    /\ _threads = <<>>
    /\ model_file = NoModel

NextGui ==
    \/ StartCalibration
    \/ StartRealtime
    \/ StopRealtime
    \/ \E t \in Tid : CalStep(t) \/ RtStep(t) \/ CalibrationJobEnd(t) \/ RealtimeJobEnd(t)

SpecGui == InitGui /\ [][NextGui]_vars

Spec == SpecGui

\* ------------------------------------------------------------ ema, repeated
\* Normalized screen points a model may keep predicting, and estimates a
\* series may start from (None: no estimate yet).
ConstantPreds == {<<Rat(1, 2), Rat(1, 2)>>, <<Rat(0, 1), Rat(1, 1)>>, <<Rat(1, 4), Rat(3, 4)>>}
Priors ==
    {None, <<Rat(0, 1), Rat(0, 1)>>, <<Rat(1, 1), Rat(1, 1)>>, <<Rat(1, 2), Rat(1, 2)>>,
     <<Rat(1, 1), Rat(0, 1)>>, <<Rat(1, 3), Rat(2, 3)>>}

\* pred_smooth = ema(pred_smooth, pred, alpha=0.25) with the same pred again
EmaUpdate(t) ==
    /\ th[t].kind = "ema" /\ th[t].pc = "e_feed"
    /\ th[t].valid < MaxUpdates
    /\ th' = [th EXCEPT ![t].pred_smooth = ema(th[t].pred_smooth, th[t].pred, Alpha),
                        ![t].valid = @ + 1]
    /\ UNCHANGED <<file, data_dir, windows, _rt_stop_flag, _threads, model_file>>

start_ema(s0, c) ==
    [Idle EXCEPT !.kind = "ema", !.caller = "cli", !.pc = "e_feed",
                 !.s0 = s0, !.pred_smooth = s0, !.pred = c]

InitEma ==
    /\ \E s0 \in Priors, c \in ConstantPreds :
          th = [t \in Tid |-> IF t = Main THEN start_ema(s0, c) ELSE Idle]
    /\ file = NoFile
    /\ data_dir = FALSE
    /\ windows = {}
    /\ _rt_stop_flag = FALSE
    /\ _threads = <<>>
    /\ model_file = NoModel

NextEma == \E t \in Tid : EmaUpdate(t)

SpecEma == InitEma /\ [][NextEma]_vars

\* ------------------------------------------------------------ features of moved landmarks
\* the eight eye landmarks of a face whose eye centres are (lx, ly), (rx, ry)
EyeMesh(lx, ly, rx, ry) ==
    [i \in {33, 133, 159, 145, 362, 263, 386, 374} |->
        CASE i = 33  -> <<lx - 2, ly>>
          [] i = 133 -> <<lx + 2, ly>>
          [] i = 159 -> <<lx, ly - 1>>
          [] i = 145 -> <<lx, ly + 1>>
          [] i = 362 -> <<rx - 2, ry>>
          [] i = 263 -> <<rx + 2, ry>>
          [] i = 386 -> <<rx, ry - 1>>
          [] i = 374 -> <<rx, ry + 1>>]

\* the landmark sets tried: the faces of the frames, a face whose eye
\* centres are one pixel apart, and one whose eye centres coincide
LandmarkSets ==
    {FaceMesh(f) : f \in 1..MaxFace}
        \cup {EyeMesh(100, 100, 101, 100), EyeMesh(100, 100, 100, 100)}

\* offsets (dx, dy) in pixels and zoom factors
Offsets == {-40, 0, 25}
Factors == {2, 3}

Translate(pts, dx, dy) == [i \in DOMAIN pts |-> <<pts[i][1] + dx, pts[i][2] + dy>>]
Scale(pts, k) == [i \in DOMAIN pts |-> <<k * pts[i][1], k * pts[i][2]>>]

\* the features of the landmarks with an offset added to every point
FxTranslate(t) ==
    /\ th[t].kind = "features" /\ th[t].pc = "f_moved"
    /\ th[t].ops < MaxOps
    /\ \E dx \in Offsets, dy \in Offsets :
          LET moved == Translate(th[t].pts, dx, dy)
          IN  th' = [th EXCEPT ![t].pts = moved, ![t].feat0 = th[t].feat,
                               ![t].feat = features_from_landmarks(moved),
                               ![t].last = "translate", ![t].ops = @ + 1]
    /\ UNCHANGED <<file, data_dir, windows, _rt_stop_flag, _threads, model_file>>

\* the features of the landmarks with every coordinate multiplied by k
FxScale(t) ==
    /\ th[t].kind = "features" /\ th[t].pc = "f_moved"
    /\ th[t].ops < MaxOps /\ th[t].k = 1
    /\ \E k \in Factors :
          LET zoomed == Scale(th[t].pts, k)
          IN  th' = [th EXCEPT ![t].pts = zoomed, ![t].feat0 = th[t].feat,
                               ![t].feat = features_from_landmarks(zoomed),
                               ![t].last = "scale", ![t].ops = @ + 1, ![t].k = k]
    /\ UNCHANGED <<file, data_dir, windows, _rt_stop_flag, _threads, model_file>>

start_features(pts) ==
    [Idle EXCEPT !.kind = "features", !.caller = "cli", !.pc = "f_moved",
                 !.pts = pts, !.feat = features_from_landmarks(pts),
                 !.feat0 = features_from_landmarks(pts)]

InitFeatures ==
    /\ \E pts \in LandmarkSets :
          th = [t \in Tid |-> IF t = Main THEN start_features(pts) ELSE Idle]
    /\ file = NoFile
    /\ data_dir = FALSE
    /\ windows = {}
    /\ _rt_stop_flag = FALSE
    /\ _threads = <<>>
    /\ model_file = NoModel

NextFeatures == \E t \in Tid : FxTranslate(t) \/ FxScale(t)

SpecFeatures == InitFeatures /\ [][NextFeatures]_vars

\* ------------------------------------------------------------ train_model
\* A cell of a dataset file is a number <<n, d>> or text that is none (<<>>).
IsNumber(cell) == Len(cell) = 2

\* data row k with c cells, all numbers
NumberRow(k, c) == [j \in 1..c |-> Rat(k + j, 10)]

\* a header line and n rows of c numbers
Dataset(n, c) == [exists |-> TRUE, rows |-> <<Header>> \o [k \in 1..n |-> NumberRow(k, c)]]

\* n rows of six cells, the last row with text in its fifth cell
TextDataset(n) ==
    [exists |-> TRUE,
     rows |-> <<Header>> \o [k \in 1..n |->
                 IF k = n THEN [NumberRow(k, 6) EXCEPT ![5] = <<>>] ELSE NumberRow(k, 6)]]

\* n rows, the last one a cell short
RaggedDataset(n) ==
    [exists |-> TRUE,
     rows |-> <<Header>> \o [k \in 1..n |-> NumberRow(k, IF k = n THEN 5 ELSE 6)]]

\* the files train_model is tried on: none, the header alone, full and
\* narrow tables, a text cell, a short row
TrainFiles ==
    {NoFile}
        \cup {Dataset(n, c) : n \in 0..MaxRows, c \in {1, 3, 6}}
        \cup {TextDataset(n) : n \in 1..MaxRows}
        \cup {RaggedDataset(n) : n \in 2..MaxRows}

\* test_size: the default 0.2, and a large share
TestSizes == {Rat(1, 5), Rat(9, 10)}

\* what model.score may return (the value is only printed)
R2Values == {-1, 0, 1}

\* the lines of the file after skiprows=1
DataRows(fl) == IF Len(fl.rows) = 0 THEN <<>> ELSE Tail(fl.rows)

\* np.loadtxt(csv_path, delimiter=",", skiprows=1, dtype=np.float32): the
\* exception it raises, or the array, squeezed (ndmin=0): no row gives shape
\* (0,), one row (c,), one column (n,), else (n, c)
loadtxt(fl) ==
    LET body == DataRows(fl)
        n    == Len(body)
        c    == IF n = 0 THEN 0 ELSE Len(body[1])
    IN  IF ~fl.exists
        THEN [err |-> "FileNotFoundError", shape |-> <<>>, rows |-> <<>>]
        ELSE IF \E k \in 1..n : \E j \in 1..Len(body[k]) : ~IsNumber(body[k][j])
        THEN [err |-> "ValueError", shape |-> <<>>, rows |-> <<>>]
        ELSE IF \E k \in 1..n : Len(body[k]) # c
        THEN [err |-> "ValueError", shape |-> <<>>, rows |-> <<>>]
        ELSE [err |-> "none",
              shape |-> IF n = 0 THEN <<0>>
                        ELSE IF n = 1 THEN <<c>>
                        ELSE IF c = 1 THEN <<n>>
                        ELSE <<n, c>>,
              rows |-> body]

\* X = data[:, :4]; y = data[:, 4:6]: two indices into an array of one
\* dimension raise
slice_error(data) == IF Len(data.shape) # 2 THEN "IndexError" ELSE "none"

\* the rows train_test_split leaves for training: n - ceil(test_size * n)
train_rows(n, test_size) == n - ((test_size[1] * n + test_size[2] - 1) \div test_size[2])

\* train_test_split raises when the train set would be empty
split_error(data, test_size) ==
    IF train_rows(data.shape[1], test_size) = 0 THEN "ValueError" ELSE "none"

\* model_x.fit(Xtr, ytr[:, 0]); model_y.fit(Xtr, ytr[:, 1]): y has the
\* columns 4 and 5 of data, as far as they exist
fit_error(data) == IF data.shape[2] < 6 THEN "IndexError" ELSE "none"

\* the class of the exception train_model raises on a file, or "none"
train_error(fl, test_size) ==
    LET data == loadtxt(fl)
    IN  IF data.err # "none" THEN data.err
        ELSE IF slice_error(data) # "none" THEN slice_error(data)
        ELSE IF split_error(data, test_size) # "none" THEN split_error(data, test_size)
        ELSE fit_error(data)

\* the statements of train_model before the dump
TrainPcs == {"t_makedirs", "t_load", "t_slice", "t_split", "t_fit", "t_score"}

\* a statement ends train_model with an exception of class e
raise(l, e) == [l EXCEPT !.exc = TRUE, !.err = e, !.pc = "raised"]

\* os.makedirs(os.path.dirname(out_path), exist_ok=True)
TrMakedirs(t) ==
    /\ th[t].kind = "training" /\ th[t].pc = "t_makedirs"
    /\ model_file' = [model_file EXCEPT !.dir = TRUE]
    /\ th' = [th EXCEPT ![t].pc = "t_load"]
    /\ UNCHANGED <<file, data_dir, windows, _rt_stop_flag, _threads>>

\* data = np.loadtxt(...)
TrLoad(t) ==
    /\ th[t].kind = "training" /\ th[t].pc = "t_load"
    /\ LET data == loadtxt(file)
       IN  th' = IF data.err # "none"
                 THEN [th EXCEPT ![t] = raise(@, data.err)]
                 ELSE [th EXCEPT ![t].data = [shape |-> data.shape, rows |-> data.rows],
                                 ![t].pc = "t_slice"]
    /\ UNCHANGED <<file, data_dir, windows, _rt_stop_flag, _threads, model_file>>

\* X = data[:, :4]; y = data[:, 4:6]
TrSlice(t) ==
    /\ th[t].kind = "training" /\ th[t].pc = "t_slice"
    /\ th' = IF slice_error(th[t].data) # "none"
             THEN [th EXCEPT ![t] = raise(@, slice_error(th[t].data))]
             ELSE [th EXCEPT ![t].pc = "t_split"]
    /\ UNCHANGED <<file, data_dir, windows, _rt_stop_flag, _threads, model_file>>

\* Xtr, Xte, ytr, yte = train_test_split(X, y, test_size=..., random_state=...)
TrSplit(t) ==
    /\ th[t].kind = "training" /\ th[t].pc = "t_split"
    /\ th' = IF split_error(th[t].data, th[t].test_size) # "none"
             THEN [th EXCEPT ![t] = raise(@, split_error(th[t].data, th[t].test_size))]
             ELSE [th EXCEPT ![t].n_train = train_rows(th[t].data.shape[1], th[t].test_size),
                             ![t].pc = "t_fit"]
    /\ UNCHANGED <<file, data_dir, windows, _rt_stop_flag, _threads, model_file>>

\* the two pipelines are built and fitted
TrFit(t) ==
    /\ th[t].kind = "training" /\ th[t].pc = "t_fit"
    /\ th' = IF fit_error(th[t].data) # "none"
             THEN [th EXCEPT ![t] = raise(@, fit_error(th[t].data))]
             ELSE [th EXCEPT ![t].pc = "t_score"]
    /\ UNCHANGED <<file, data_dir, windows, _rt_stop_flag, _threads, model_file>>

\* a training that refuses a negative score
scored_gated(l, r2x, r2y) ==
    IF r2x < 0 \/ r2y < 0
    THEN [raise(l, "ValueError") EXCEPT !.r2 = <<r2x, r2y>>]
    ELSE [l EXCEPT !.r2 = <<r2x, r2y>>, !.pc = "t_dump"]

\* r2x = model_x.score(...); r2y = model_y.score(...); print(...)
scored(l, r2x, r2y) == [l EXCEPT !.r2 = <<r2x, r2y>>, !.pc = "t_dump"]

TrScore(t) ==
    /\ th[t].kind = "training" /\ th[t].pc = "t_score"
    /\ \E r2x \in R2Values, r2y \in R2Values : th' = [th EXCEPT ![t] = scored(@, r2x, r2y)]
    /\ UNCHANGED <<file, data_dir, windows, _rt_stop_flag, _threads, model_file>>

\* dump({"model_x": model_x, "model_y": model_y}, out_path); print(...)
TrDump(t) ==
    /\ th[t].kind = "training" /\ th[t].pc = "t_dump"
    /\ model_file' = [dir |-> TRUE, exists |-> TRUE,
                      pack |-> [keys |-> {"model_x", "model_y"}, n_train |-> th[t].n_train]]
    /\ th' = [th EXCEPT ![t].pc = "returned"]
    /\ UNCHANGED <<file, data_dir, windows, _rt_stop_flag, _threads>>

\* a statement before the dump is interrupted (KeyboardInterrupt)
TrRaise(t) ==
    /\ th[t].kind = "training" /\ th[t].pc \in TrainPcs
    /\ th' = [th EXCEPT ![t] = raise(@, "KeyboardInterrupt")]
    /\ UNCHANGED <<file, data_dir, windows, _rt_stop_flag, _threads, model_file>>

TrStep(t) ==
    \/ TrMakedirs(t) \/ TrLoad(t) \/ TrSlice(t) \/ TrSplit(t) \/ TrFit(t)
    \/ TrScore(t) \/ TrDump(t) \/ TrRaise(t)

start_training(test_size, found) ==
    [Idle EXCEPT !.kind = "training", !.caller = "cli", !.pc = "t_makedirs",
                 !.test_size = test_size, !.model_file0 = found]

\* a model file an earlier training left behind
OldModel ==
    [dir |-> TRUE, exists |-> TRUE, pack |-> [keys |-> {"model_x", "model_y"}, n_train |-> 0]]

\* train.py: the script calls train_model on the main thread
InitTrain ==
    /\ model_file \in {NoModel, OldModel}
    /\ \E test_size \in TestSizes :
          th = [t \in Tid |-> IF t = Main THEN start_training(test_size, model_file)
                              ELSE Idle]
    /\ file \in TrainFiles
    /\ data_dir \in BOOLEAN
    /\ windows = {}
    /\ _rt_stop_flag = FALSE
    /\ _threads = <<>>

NextTrain == \E t \in Tid : TrStep(t)

SpecTrain == InitTrain /\ [][NextTrain]_vars

\* ------------------------------------------------------------ properties
Calibrations == {t \in Tid : th[t].kind = "calibration"}
Realtimes == {t \in Tid : th[t].kind = "realtime"}

\* C1: once ESC was seen at an abort check of a warmup or dwell frame, the
\* run never opens or writes the output file: the file at out_csv is what it
\* was when run_calibration was entered, whatever was collected before.
C1_AbortWritesNothing ==
    \A t \in Calibrations :
        th[t].esc =>
            /\ file = th[t].file0
            /\ th[t].pos = 0
            /\ th[t].pc \in {"c_abort", "c_finally", "returned", "raised"}

\* an aborted run that has returned, the abort seen in the dwell phase of the
\* second target with samples of both targets collected and an earlier file
\* in place
C1_Witness ==
    \E t \in Calibrations :
        /\ th[t].esc /\ th[t].pc = "returned"
        /\ th[t].i = 2 /\ Len(th[t].samples) >= 2
        /\ th[t].file0 = OldFile

\* C2: the dwell phase of a target has ended without abort only with exactly
\* dwell_frames samples collected for it (and dwell_frames samples for each
\* target before it); the frames it consumed are the samples plus the
\* failures, so at least dwell_frames, and more when a failure occurred.
\* While it runs, collected never exceeds dwell_frames.
C2_DwellQuota ==
    \A t \in Calibrations :
        /\ th[t].pc \in {"c_flash", "c_flash_show"} =>
              /\ th[t].collected = th[t].dwell_frames
              /\ Len(th[t].samples) = th[t].i * th[t].dwell_frames
              /\ th[t].dwell_reads = th[t].dwell_frames + th[t].dwell_fails
              /\ th[t].dwell_reads >= th[t].dwell_frames
              /\ (th[t].dwell_fails > 0 => th[t].dwell_reads > th[t].dwell_frames)
        /\ th[t].pc \in {"c_dwell", "c_dwell_feat", "c_dwell_show", "c_dwell_key"} =>
              /\ th[t].collected <= th[t].dwell_frames
              /\ th[t].dwell_reads >= th[t].collected

\* a dwell phase of two frames that has ended after a failed capture and a
\* frame without a face
C2_Witness ==
    \E t \in Calibrations :
        /\ th[t].pc = "c_flash" /\ th[t].dwell_frames = 2
        /\ th[t].dwell_fails = 2 /\ th[t].dwell_reads = 4

\* C3: when control has left run_calibration, on any path, after the
\* detector or the capture device was acquired, cap.release() and fe.close()
\* have both been called.
C3_ReleasedOnEveryExit ==
    \A t \in Calibrations :
        (th[t].pc \in {"returned", "raised"} /\ (th[t].fe # "none" \/ th[t].cap # "none"))
            => (th[t].cap = "released" /\ th[t].fe = "closed")

\* C4: once Stop Realtime has set the stop flag while run_realtime was
\* looping, the loop's next abort check, made with the flag still set, leaves
\* the loop.
C4_StopLeavesLoop ==
    [][\A t \in Realtimes :
          (th[t].stop_requested /\ _rt_stop_flag /\ th[t].pc = "r_key"
             /\ th'[t].pc # "r_key")
            => th'[t].pc = "r_finally"]_vars

\* C5: at the head of the warmup loop, the dwell loop and the realtime loop,
\* the iteration before it (when there was one) has checked the abort
\* signal.
C5_EveryIterationPolls ==
    \A t \in Tid :
        /\ (th[t].pc = "c_warm" /\ th[t].f > 0) => th[t].polled
        /\ (th[t].pc = "c_dwell" /\ th[t].dwell_reads > 0) => th[t].polled
        /\ (th[t].pc = "r_loop" /\ th[t].reads > 0) => th[t].polled

\* C6: at most one background job holds the capture device open.
C6_OneSessionPerDevice ==
    Cardinality({t \in Tid : th[t].cap = "open"}) <= 1

\* C7: when run_calibration has returned without abort, the file holds the
\* header row and then one row per sample of this run, in collection order:
\* the four features, then the target's x and y.
C7_FileIsHeaderThenSamples ==
    \A t \in Calibrations :
        (th[t].pc = "returned" /\ ~th[t].esc) =>
            /\ file.exists
            /\ Len(file.rows) = Len(th[t].samples) + 1
            /\ file.rows[1] = <<"f1", "f2", "f3", "f4", "tx", "ty">>
            /\ \A k \in 1..Len(th[t].samples) :
                  LET sm == th[t].samples[k]
                  IN  file.rows[k + 1] = <<sm.feat[1], sm.feat[2], sm.feat[3], sm.feat[4],
                                           sm.xy[1], sm.xy[2]>>

\* a completed run over an earlier file, with two different faces sampled
\* one after the other
C7_Witness ==
    \E t \in Calibrations :
        /\ th[t].pc = "returned" /\ ~th[t].esc
        /\ th[t].file0 = OldFile
        /\ Len(th[t].samples) >= 2
        /\ th[t].samples[1].feat # th[t].samples[2].feat

\* C8: the grid of an N x N calibration has N*N points; the point at index
\* r*N + c has the x of column c and the y of row r, the same N values on
\* both axes; these start at the margin, end at 1 - margin (N > 1), are
\* evenly spaced and increasing, and all lie in [margin, 1 - margin].
C8_GridRowMajor ==
    \A t \in Calibrations :
        th[t].pc \in CalTryPcs =>
            LET N  == th[t].points_per_grid
                g  == th[t].points
                v(c) == g[c + 1][1]
                lo == <<3, 20>>
                hi == <<17, 20>>
            IN  /\ Len(g) = N * N
                /\ \A r \in 0..(N - 1), c \in 0..(N - 1) :
                      /\ g[r * N + c + 1][1] = v(c)
                      /\ g[r * N + c + 1][2] = v(r)
                      /\ RLe(lo, v(c)) /\ RLe(v(c), hi)
                /\ v(0) = lo
                /\ N > 1 => v(N - 1) = hi
                /\ \A c \in 0..(N - 2) : RLt(v(c), v(c + 1))
                /\ \A c \in 0..(N - 3) :
                      RSub(v(c + 1), v(c)) = RSub(v(c + 2), v(c + 1))

\* a run on the largest grid with its points computed
C8_Witness ==
    \E t \in Calibrations :
        th[t].pc = "c_target" /\ th[t].points_per_grid = MaxGrid /\ MaxGrid >= 2

\* C9: the step that updates the smoothed estimate makes it the raw
\* prediction on the first frame that gave a feature, and on every later one
\* 0.75 * the previous estimate + 0.25 * the raw prediction, on each axis
\* (a/b = (3 c/d + e/f) / 4, cross-multiplied).
C9_EmaRule ==
    [][\A t \in Realtimes :
          (th[t].pc = "r_ema" /\ th'[t].pc = "r_hud") =>
              IF th[t].valid = 0
              THEN th'[t].pred_smooth = th[t].pred
              ELSE /\ th[t].pred_smooth # <<>>
                   /\ \A k \in 1..2 :
                         LET a == th'[t].pred_smooth[k][1]
                             b == th'[t].pred_smooth[k][2]
                             c == th[t].pred_smooth[k][1]
                             d == th[t].pred_smooth[k][2]
                             e == th[t].pred[k][1]
                             f == th[t].pred[k][2]
                         IN  4 * a * d * f = b * (3 * c * f + e * d)]_vars

\* a third prediction has been blended in and the estimate is neither of the
\* raw predictions
C9_Witness ==
    \E t \in Realtimes :
        /\ th[t].pc = "r_hud" /\ th[t].valid = 3
        /\ th[t].pred_smooth \notin RawPreds

\* C10: only the update step of a frame that gave a feature changes the
\* smoothed estimate, and it never unsets it; only such a frame gets the
\* overlay; a frame without a feature goes on to the display and from there
\* to the abort check, which is made (unless a call raises).
C10_NoFaceKeepsEstimate ==
    [][\A t \in Realtimes :
          /\ th'[t].pred_smooth # th[t].pred_smooth =>
                (th[t].pc = "r_ema" /\ th[t].feat # <<>>)
          /\ th[t].pred_smooth # <<>> => th'[t].pred_smooth # <<>>
          /\ (th'[t].hud /\ ~th[t].hud) => (th[t].pc = "r_hud" /\ th[t].feat # <<>>)
          /\ (th[t].pc = "r_if" /\ th[t].feat = <<>> /\ th'[t].pc # "r_if") =>
                (th'[t].pc \in {"r_show", "r_finally"} /\ ~th'[t].hud)
          /\ (th[t].pc = "r_show" /\ th'[t].pc # "r_show") =>
                th'[t].pc \in {"r_key", "r_finally"}
          /\ (th[t].pc = "r_key" /\ th'[t].pc # "r_key" /\ ~th'[t].exc) =>
                th'[t].polled]_vars

\* an iteration on a frame without a face, after an estimate was made, has
\* shown the frame without overlay and made its abort check
C10_Witness ==
    \E t \in Realtimes :
        /\ th[t].pc = "r_pace" /\ th[t].feat = <<>> /\ th[t].pred_smooth # <<>>
        /\ ~th[t].hud /\ th[t].polled

\* C11: an iteration of the realtime loop whose cap.read() delivered no frame
\* ends at that read: the next statement is the loop's head again, and the
\* read has left the smoothed estimate, the feature, the prediction, the
\* pixel and the count of predictions as they were; the pacing step is taken
\* only from the abort check of an iteration that got a frame, and feature
\* extraction only on a delivered frame.
C11_CaptureMissSkipsAll ==
    [][\A t \in Realtimes :
          /\ (th[t].pc = "r_loop" /\ th'[t].reads # th[t].reads /\ ~th'[t].ret) =>
                /\ th'[t].pc = "r_loop"
                /\ th'[t].pred_smooth = th[t].pred_smooth
                /\ th'[t].feat = th[t].feat
                /\ th'[t].pred = th[t].pred
                /\ th'[t].pt = th[t].pt
                /\ th'[t].valid = th[t].valid
          /\ (th'[t].pc = "r_pace" /\ th[t].pc # "r_pace") =>
                (th[t].pc = "r_key" /\ th[t].ret)
          /\ (th'[t].pc = "r_feat" /\ th[t].pc # "r_feat") =>
                (th[t].pc = "r_loop" /\ th'[t].ret)]_vars

\* a capture miss after an estimate was made, followed by another read
C11_Witness ==
    \E t \in Realtimes :
        /\ th[t].pc = "r_loop" /\ ~th[t].ret /\ th[t].reads >= 2
        /\ th[t].pred_smooth # <<>>

\* C12: when control has left run_realtime, on any path, after the detector
\* or the capture device was acquired, cap.release() and fe.close() have both
\* been called and no window of the run is left on screen unless the
\* teardown itself raised.
C12_RealtimeReleasedOnEveryExit ==
    \A t \in Realtimes :
        (th[t].pc \in {"returned", "raised"} /\ (th[t].fe # "none" \/ th[t].cap # "none"))
            => /\ th[t].cap = "released" /\ th[t].fe = "closed"
               /\ (th[t].pc = "returned" => windows = {})

\* the statements of the dwell loop
DwellPcs == {"c_dwell", "c_dwell_feat", "c_dwell_show", "c_dwell_key"}

\* C13: the dwell phase of a target is left only by its loop head finding the
\* quota met, by an abort check that saw ESC, or by an exception; an
\* iteration whose capture failed, or whose frame gave no feature and whose
\* abort check saw no ESC, is back at the loop head with collected and the
\* samples unchanged, however many iterations have failed before.  So the
\* file is opened only with the quota of every target met.
C13_DwellEndsOnlyByQuotaOrAbort ==
    [][\A t \in Calibrations :
          /\ (th[t].pc \in DwellPcs /\ th'[t].pc \notin DwellPcs) =>
                \/ /\ th[t].pc = "c_dwell" /\ th'[t].pc = "c_flash"
                   /\ th[t].collected = th[t].dwell_frames
                \/ th[t].pc = "c_dwell_key" /\ th'[t].pc = "c_abort" /\ th'[t].esc
                \/ th'[t].pc = "c_finally" /\ th'[t].exc
          /\ (th[t].pc = "c_dwell" /\ th'[t].dwell_fails # th[t].dwell_fails) =>
                /\ th'[t].pc = "c_dwell"
                /\ th'[t].collected = th[t].collected
                /\ th'[t].samples = th[t].samples
          /\ (th[t].pc = "c_dwell_feat" /\ th'[t].dwell_fails # th[t].dwell_fails) =>
                /\ th'[t].pc = "c_dwell_show"
                /\ th'[t].collected = th[t].collected
                /\ th'[t].samples = th[t].samples
          /\ (th[t].pc \in {"c_dwell_show", "c_dwell_key"} /\ ~th'[t].esc /\ ~th'[t].exc) =>
                /\ th'[t].pc \in DwellPcs
                /\ th'[t].collected = th[t].collected
          /\ th'[t].pc = "c_open" =>
                Len(th'[t].samples) = Len(th'[t].points) * th'[t].dwell_frames]_vars

\* a dwell phase still running with nothing collected after every read the
\* run was given has failed, captures and frames without a face among them
C13_Witness ==
    \E t \in Calibrations :
        /\ th[t].pc = "c_dwell" /\ th[t].collected = 0 /\ th[t].dwell_frames > 0
        /\ th[t].dwell_fails = th[t].budget /\ th[t].dwell_reads = th[t].budget
        /\ th[t].polled /\ ~th[t].esc /\ ~th[t].exc

Trainings == {t \in Tid : th[t].kind = "training"}

\* the ways a dataset file can fail train_model: it is missing; it is
\* malformed (a cell that is no number, or a row that has not six cells); it
\* is well formed but its rows leave the train set or the test set empty
Missing(fl) == ~fl.exists

Malformed(fl) ==
    /\ fl.exists
    /\ \E k \in 1..Len(DataRows(fl)) :
          \/ Len(DataRows(fl)[k]) # 6
          \/ \E j \in 1..Len(DataRows(fl)[k]) : ~IsNumber(DataRows(fl)[k][j])

Insufficient(fl, test_size) ==
    /\ fl.exists /\ ~Malformed(fl)
    /\ LET n == Len(DataRows(fl))
       IN  train_rows(n, test_size) = 0 \/ train_rows(n, test_size) = n

\* the exception classes train_model ends with on a missing or malformed file
IOErrorKinds ==
    {train_error(fl, test_size) :
        fl \in {d \in TrainFiles : Missing(d) \/ Malformed(d)}, test_size \in TestSizes}

\* C14: when train_model fails on a well-formed file whose rows cannot give
\* a non-empty train and test split, the class of the exception it ends with
\* is not one it ends with on a missing or a malformed file.
C14_InsufficientDataDistinct ==
    \A t \in Trainings :
        (th[t].pc = "raised" /\ th[t].err # "KeyboardInterrupt"
           /\ Insufficient(file, th[t].test_size))
            => th[t].err \notin IOErrorKinds

\* C15: train_model has returned only with the file at out_path holding the
\* two models of this run under the keys model_x and model_y, whatever the
\* two scores were; once the scores are taken nothing but the dump follows;
\* until the dump, and after any exception, the file at out_path is the one
\* found at entry; an exception, unless an interrupt, is the one loading,
\* slicing, splitting or fitting raises on the file, so a file on which
\* these succeed always reaches the dump.
C15_ArtifactIffTrained ==
    \A t \in Trainings :
        /\ th[t].pc = "returned" =>
              /\ model_file.exists
              /\ model_file.pack = [keys |-> {"model_x", "model_y"}, n_train |-> th[t].n_train]
              /\ th[t].n_train > 0
              /\ th[t].r2 # <<>>
              /\ train_error(file, th[t].test_size) = "none"
        /\ th[t].r2 # <<>> => (th[t].pc \in {"t_dump", "returned"} /\ ~th[t].exc)
        /\ th[t].pc \in TrainPcs \cup {"t_dump", "raised"} =>
              /\ model_file.exists = th[t].model_file0.exists
              /\ model_file.pack = th[t].model_file0.pack
        /\ (th[t].pc = "raised" /\ th[t].err # "KeyboardInterrupt") =>
              th[t].err = train_error(file, th[t].test_size)
        /\ th[t].pc = "t_dump" => train_error(file, th[t].test_size) = "none"

\* a training whose two scores were negative has returned, the models
\* fitted on two rows and written over an earlier model file
C15_Witness ==
    \E t \in Trainings :
        /\ th[t].pc = "returned" /\ th[t].r2 = <<-1, -1>>
        /\ th[t].model_file0 = OldModel /\ th[t].n_train = 2
        /\ model_file # OldModel

EmaSeries == {t \in Tid : th[t].kind = "ema"}

\* |p - q|
RDist(p, q) == IF RLe(q, p) THEN RSub(p, q) ELSE RSub(q, p)

\* C16: in a series of ema calls with alpha = 0.25 and one raw prediction c,
\* a series that starts without an estimate has the estimate c after its
\* first call and after every later one; in a series that starts from an
\* estimate s0, each call makes the distance to c on each axis 0.75 times
\* what it was, so that from a distance of at most 1 it is below 1/2 after
\* 3 calls and below 1/10 after 9.
C16_EmaConverges ==
    [][\A t \in EmaSeries :
          th'[t].valid = th[t].valid + 1 =>
              /\ th[t].s0 = <<>> => th'[t].pred_smooth = th[t].pred
              /\ th[t].s0 # <<>> =>
                    \A k \in 1..2 :
                        /\ RMul(RInt(4), RDist(th'[t].pred_smooth[k], th[t].pred[k]))
                              = RMul(RInt(3), RDist(th[t].pred_smooth[k], th[t].pred[k]))
                        /\ th'[t].valid >= 3 =>
                              RLt(RDist(th'[t].pred_smooth[k], th[t].pred[k]), Rat(1, 2))
                        /\ th'[t].valid >= 9 =>
                              RLt(RDist(th'[t].pred_smooth[k], th[t].pred[k]), Rat(1, 10))]_vars

\* nine calls from an estimate a whole screen away on both axes: close to
\* the raw prediction, not equal to it
C16_Witness ==
    \E t \in EmaSeries :
        /\ th[t].valid >= 9 /\ th[t].s0 = <<Rat(1, 1), Rat(0, 1)>>
        /\ th[t].pred = <<Rat(0, 1), Rat(1, 1)>>
        /\ th[t].pred_smooth # th[t].pred

FeatureRuns == {t \in Tid : th[t].kind = "features"}

\* C17: the features of landmarks to which an offset (dx, dy) was added are
\* the features they had before, all four exactly.
C17_TranslationInvariant ==
    \A t \in FeatureRuns :
        th[t].last = "translate" => th[t].feat = th[t].feat0

\* a face, zoomed and then shifted: the landmarks are not the first ones,
\* the features are not all zero
C17_Witness ==
    \E t \in FeatureRuns :
        /\ th[t].last = "translate" /\ th[t].ops = 2 /\ th[t].k = 3
        /\ th[t].pts[33][1] # 3 * 98
        /\ th[t].feat[1] # Rat(0, 1) /\ th[t].feat[2] # Rat(0, 1)

\* the fraction bits a float32 keeps below 1 (feat is built with
\* dtype=np.float32)
FixBits == 24

\* r/d (0 <= r < d) to n more binary places after the places in acc, by
\* long division
RECURSIVE FixDigits(_, _, _, _)
FixDigits(r, d, n, acc) ==
    IF n = 0 THEN acc
    ELSE FixDigits((2 * r) % d, d, n - 1, 2 * acc + ((2 * r) \div d))

\* a rational in units of 2^-FixBits, truncated towards zero
RFix(p) ==
    LET m == FixDigits(Abs(p[1]) % p[2], p[2], FixBits, Abs(p[1]) \div p[2])
    IN  IF p[1] < 0 THEN -m ELSE m

TargetOf(k, dwell) == ((k - 1) \div dwell) + 1

\* the features of the frames that show a face
FaceFeatures == {features_from_frame(frame) : frame \in 1..MaxFace}

\* C19: at every point of run_calibration from the first target on, sample
\* k of the list belongs to target ((k - 1) div dwell_frames) + 1, a target
\* already shown, and carries that target's grid point and the feature of a
\* frame with a face; so the samples are grouped by target in grid order,
\* dwell_frames for every target before the current one, collected for the
\* current one while it dwells.  When the run has returned without abort or
\* exception the list holds N * N * dwell_frames samples.
C19_SamplesLabelledInGridOrder ==
    \A t \in Calibrations :
        th[t].i >= 1 =>
            /\ \A k \in 1..Len(th[t].samples) :
                  LET g == TargetOf(k, th[t].dwell_frames)
                  IN  /\ g <= th[t].i
                      /\ th[t].samples[k].xy = th[t].points[g]
                      /\ th[t].samples[k].feat \in FaceFeatures
            /\ th[t].pc \in DwellPcs =>
                  Len(th[t].samples) = (th[t].i - 1) * th[t].dwell_frames + th[t].collected
            /\ th[t].pc \in {"c_warm", "c_warm_show", "c_warm_key"} =>
                  Len(th[t].samples) = (th[t].i - 1) * th[t].dwell_frames
            /\ (th[t].pc = "returned" /\ ~th[t].esc /\ ~th[t].exc) =>
                  Len(th[t].samples)
                      = th[t].points_per_grid * th[t].points_per_grid * th[t].dwell_frames

\* a run over the 2 x 2 grid has returned with one sample for each of its
\* four targets, after a frame that gave none
C19_Witness ==
    \E t \in Calibrations :
        /\ th[t].pc = "returned" /\ ~th[t].esc /\ ~th[t].exc
        /\ th[t].points_per_grid = 2 /\ th[t].dwell_frames >= 1
        /\ Len(th[t].samples) = 4 * th[t].dwell_frames
        /\ th[t].samples[1].xy # th[t].samples[Len(th[t].samples)].xy

\* C20: a step of the warmup loop or of the acknowledgement flash leaves
\* the sample list and the count of the dwell loop as they are, whatever
\* frame it read; the list changes only where the dwell loop appends.
C20_SamplesOnlyInDwell ==
    [][\A t \in Calibrations :
          /\ th[t].pc \in {"c_warm", "c_warm_show", "c_warm_key", "c_flash", "c_flash_show"} =>
                /\ th'[t].samples = th[t].samples
                /\ (th'[t].pc # "c_dwell" => th'[t].collected = th[t].collected)
          /\ th'[t].samples # th[t].samples => th[t].pc = "c_dwell_feat"]_vars

\* the flash after a dwell has read a frame with a face in it, the warmup
\* before the dwell having read the run's first frame: one sample
C20_Witness ==
    \E t \in Calibrations :
        /\ th[t].pc = "c_flash_show" /\ th[t].frame # 0
        /\ th[t].warmup_frames = 1 /\ th[t].dwell_frames = 1 /\ th[t].reads = 3
        /\ Len(th[t].samples) = 1

\* C21: the warmup loop of a target ends after exactly warmup_frames
\* iterations, and each of its iterations, having read, goes on to draw the
\* target and show the frame (unless a call raises).
C21_WarmupShowsEveryFrame ==
    [][\A t \in Calibrations :
          /\ (th[t].pc = "c_warm" /\ th'[t].pc = "c_dwell") =>
                th[t].f = th[t].warmup_frames
          /\ (th[t].pc = "c_warm" /\ th'[t].f = th[t].f + 1) =>
                th'[t].pc = "c_warm_show"]_vars

\* C22: the key a waitKey of the acknowledgement flash returns changes
\* nothing: the step goes back to the flash loop (unless a call raises) and
\* sets no abort, and the flash loop ends into the next target; a run whose
\* only ESC came in a flash, and in which no call raised, never takes the
\* abort branch and returns with the file written: the header and one row
\* for each of the N * N * dwell_frames samples.
C22_EscInFlashIgnored ==
    [][\A t \in Calibrations :
          /\ (th[t].pc = "c_flash_show" /\ th'[t].pc # "c_flash_show") =>
                /\ th'[t].pc = "c_flash" \/ (th'[t].pc = "c_finally" /\ th'[t].exc)
                /\ th'[t].esc = th[t].esc
          /\ (th[t].pc = "c_flash" /\ th'[t].pc \notin {"c_flash", "c_flash_show"}) =>
                th'[t].pc = "c_target" \/ (th'[t].pc = "c_finally" /\ th'[t].exc)
          /\ (th'[t].flash_esc /\ ~th'[t].esc) => th'[t].pc # "c_abort"
          /\ (th'[t].flash_esc /\ ~th'[t].esc /\ ~th'[t].exc /\ th'[t].pc = "returned") =>
                /\ file'.exists
                /\ Len(file'.rows) = Len(th'[t].samples) + 1
                /\ Len(th'[t].samples)
                      = th'[t].points_per_grid * th'[t].points_per_grid * th'[t].dwell_frames]_vars

\* a run over the 1 x 1 grid has returned with its file written, ESC having
\* come in the flash after its only, hence last, target and nowhere else
C22_Witness ==
    \E t \in Calibrations :
        /\ th[t].pc = "returned" /\ th[t].flash_esc /\ ~th[t].esc /\ ~th[t].exc
        /\ th[t].points_per_grid = 1 /\ th[t].dwell_frames = 1
        /\ file.exists /\ Len(file.rows) = 2

\* -p
RNeg(p) == <<-p[1], p[2]>>

\* C23: in every feature vector computed from landmarks, the third feature
\* is the negation of the first and the fourth the negation of the second
\* (leftX + rightX = 0, leftY + rightY = 0), so the first two determine all
\* four.
C23_FeatureAntisymmetric ==
    \A t \in FeatureRuns :
        /\ Len(th[t].feat) = 4
        /\ th[t].feat[3] = RNeg(th[t].feat[1])
        /\ th[t].feat[4] = RNeg(th[t].feat[2])

\* the features of a face with its eyes apart on both axes, zoomed by 2:
\* none of the four is zero, left and right differ
C23_Witness ==
    \E t \in FeatureRuns :
        /\ th[t].last = "scale" /\ th[t].k = 2 /\ th[t].ops = 1
        /\ th[t].feat[1] # Rat(0, 1) /\ th[t].feat[2] # Rat(0, 1)
        /\ th[t].feat[3] # th[t].feat[1] /\ th[t].feat[4] # th[t].feat[2]

=============================================================================
